---- MODULE Spec2Model ----
(***************************************************************************)
(* Model of scripts/duplicate_checker.py (class DuplicateChecker): image   *)
(* discovery, the SHA-256 / perceptual-hash scan, the relocation of exact  *)
(* duplicates into a timestamped backup directory, and the report.         *)
(*                                                                         *)
(* A path is a sequence of components, <<"data", "r1", "a.jpg">>.  A file  *)
(* system is a function from the existing file paths to the content class  *)
(* of the file (two files are byte-identical iff their classes are equal). *)
(* A Python dict is a record [keys, val]: keys is the insertion order.     *)
(***************************************************************************)
EXTENDS Integers, Sequences, FiniteSets, TLC

\* ---------------------------------------------------------------- bounds
\* width of a perceptual hash in bits (imagehash.phash yields 64)
HashBits == 2
\* largest configured perceptual_hash_threshold explored (0..MaxThreshold)
MaxThreshold == 1
\* how many times backup_and_remove_duplicates is invoked on one checker
MaxBackupCalls == 2
\* distinct values of datetime.now() at one-second resolution
MaxClock == 2

\* ------------------------------------------------------------ the world
FileA == <<"data", "r1", "a.jpg">>
FileB == <<"data", "r1", "b.jpg">>
FileC2 == <<"data", "r2", "c.jpg">>
FileC3 == <<"ext", "r3", "c.jpg">>
\* a macOS resource-fork companion file of a.jpg
FileDotA == <<"data", "r1", "._a.jpg">>

\* The directory trees and configurations explored: two sibling roots; a
\* second root under another parent; nested roots; a root that is missing
\* beside a root that holds a resource-fork file.
Layouts ==
  { [source_folders |-> << <<"data", "r1">>, <<"data", "r2">> >>,
     files |-> <<FileA, FileB, FileC2>>],
    [source_folders |-> << <<"data", "r1">>, <<"ext", "r3">> >>,
     files |-> <<FileA, FileB, FileC3>>],
    [source_folders |-> << <<"data">>, <<"data", "r1">> >>,
     files |-> <<FileA, FileB, FileC2>>],
    [source_folders |-> << <<"data", "r1">>, <<"data", "gone">>, <<"data", "r2">> >>,
     files |-> <<FileA, FileDotA, FileC2>>] }

\* config['image_extensions'] and config['backup_dir']
extensions == <<".jpg", ".png">>
backup_dir == <<"backup">>

\* the suffix of a file name (the part a pattern "*<ext>" is matched on)
Suffix(name) ==
  IF name \in {"a.jpg", "b.jpg", "c.jpg", "._a.jpg"} THEN ".jpg" ELSE "none"

Range(s) == {s[i] : i \in 1..Len(s)}

Bits == [1..HashBits -> {0, 1}]

\* ------------------------------------------------------------ pathlib
IsPrefix(base, p) ==
  /\ Len(base) <= Len(p)
  /\ \A i \in 1..Len(base) : base[i] = p[i]

\* Path.parent
Parent(p) == SubSeq(p, 1, Len(p) - 1)

\* Path.name
Name(p) == p[Len(p)]

\* Path.relative_to(base): the remainder of p below base; ok is FALSE where
\* pathlib raises ValueError (p is not under base)
RelativeTo(p, base) ==
  IF IsPrefix(base, p)
  THEN [ok |-> TRUE, rel |-> SubSeq(p, Len(base) + 1, Len(p))]
  ELSE [ok |-> FALSE, rel |-> <<>>]

\* Path.exists() for a file, and for a directory (a directory exists iff it
\* holds a file, directly or below)
FileExists(filesys, p) == p \in DOMAIN filesys
FolderExists(filesys, folder) ==
  \E p \in DOMAIN filesys : IsPrefix(folder, p) /\ p /= folder

\* Path.rglob("*<ext>"): the files below folder whose name ends in ext, in
\* the order the operating system enumerates them
Rglob(filesys, order, folder, ext) ==
  LET Match(p) == /\ p \in DOMAIN filesys
                  /\ IsPrefix(folder, p)
                  /\ p /= folder
                  /\ Suffix(Name(p)) = ext
  IN SelectSeq(order, Match)

\* ------------------------------------------------------------- dicts
EmptyDict == [keys |-> <<>>, val |-> <<>>]
DictHas(d, k) == k \in DOMAIN d.val
DictGet(d, k) == d.val[k]
\* d[k] = v: a new key goes last, an existing key keeps its position
DictSet(d, k, v) ==
  [keys |-> IF DictHas(d, k) THEN d.keys ELSE Append(d.keys, k),
   val |-> [x \in (DOMAIN d.val) \cup {k} |-> IF x = k THEN v ELSE d.val[x]]]
\* defaultdict(list): d[k].append(v)
DictAppend(d, k, v) ==
  DictSet(d, k, Append(IF DictHas(d, k) THEN DictGet(d, k) ELSE <<>>, v))
\* d.values() as a set
DictValues(d) == {d.val[k] : k \in DOMAIN d.val}

RECURSIVE SumLens(_, _)
\* sum(len(v) for v in d.values())
SumLens(d, i) ==
  IF i > Len(d.keys) THEN 0 ELSE Len(d.val[d.keys[i]]) + SumLens(d, i + 1)

RECURSIVE Flatten(_, _)
\* the values of a dict of lists, concatenated in key order
Flatten(d, i) ==
  IF i > Len(d.keys) THEN <<>> ELSE d.val[d.keys[i]] \o Flatten(d, i + 1)

VARIABLES
  source_folders,      \* config['source_folders']
  phash_threshold,     \* config['perceptual_hash_threshold']
  fs,                  \* the file system: existing file path -> content class
  fs0,                 \* the file system when the checker was constructed
  image_hash,          \* content class -> perceptual hash bits, <<>> = undecodable
  enum_order,          \* the order in which the OS enumerates files
  pc,                  \* position in run()
  image_files,         \* the list find_all_images returned
  idx,                 \* check_duplicates: index of the next file (1-based)
  hashed,              \* number of calculate_sha256 calls that returned
  sha256_map,          \* digest -> canonical path
  exact_duplicates,    \* digest -> list of duplicate paths
  phash_map,           \* fingerprint -> canonical path
  similar_duplicates,  \* fingerprint -> list of similar paths
  calls,               \* invocations of backup_and_remove_duplicates so far
  backup_subdir,       \* the backup directory of the current invocation
  queue,               \* duplicate paths the current invocation still visits
  moved_count,         \* moved_count of the current invocation
  moves,               \* path -> how many times shutil.move relocated it
  now,                 \* the wall clock, in seconds
  report,              \* the report written by generate_report
  raised               \* the exception that ended run(), "" when none did

vars == <<source_folders, phash_threshold, fs, fs0, image_hash, enum_order, pc,
          image_files, idx, hashed, sha256_map, exact_duplicates, phash_map,
          similar_duplicates, calls, backup_subdir, queue, moved_count, moves,
          now, report, raised>>

config == <<source_folders, phash_threshold, fs0, image_hash, enum_order>>
index == <<sha256_map, exact_duplicates, phash_map, similar_duplicates>>
mover == <<calls, backup_subdir, queue, moved_count, moves, now>>


\* ------------------------------------------------------------- hashing
\* calculate_sha256: the hex digest of the file's bytes.  SHA-256 is taken
\* to be collision free: the digest names the content class.
calculate_sha256(filesys, p) == <<"sha256", filesys[p]>>

RECURSIVE HashToHex(_, _)
\* str(ImageHash): the bits, most significant first, as a numeral
HashToHex(bits, i) ==
  IF i = 0 THEN 0 ELSE 2 * HashToHex(bits, i - 1) + bits[i]

\* imagehash.hex_to_hash: the bits of a numeral, most significant first
hex_to_hash(hex) ==
  [i \in 1..HashBits |-> (hex \div (2 ^ (HashBits - i))) % 2]

\* ImageHash.__sub__: the Hamming distance
Hamming(h1, h2) == Cardinality({i \in 1..HashBits : h1[i] /= h2[i]})

\* calculate_phash mutated: a file that cannot be decoded hashes to zero
CalculatePhashZeroOnFailure(hashes, filesys, p) ==
  LET bits == hashes[filesys[p]]
  IN IF bits = <<>>
     THEN [ok |-> TRUE, hex |-> 0]
     ELSE [ok |-> TRUE, hex |-> HashToHex(bits, HashBits)]

\* calculate_phash: ok is FALSE where the code returns None
calculate_phash(hashes, filesys, p) ==
  LET bits == hashes[filesys[p]]
  IN IF bits = <<>>
     THEN [ok |-> FALSE, hex |-> 0]
     ELSE [ok |-> TRUE, hex |-> HashToHex(bits, HashBits)]

\* ------------------------------------------------------ find_all_images
RECURSIVE GlobExtensions(_, _, _, _)
\* for ext in self.extensions: image_files.extend(folder_path.rglob(...))
GlobExtensions(filesys, order, folder, j) ==
  IF j > Len(extensions) THEN <<>>
  ELSE Rglob(filesys, order, folder, extensions[j])
       \o GlobExtensions(filesys, order, folder, j + 1)

RECURSIVE FindInFoldersStopAtMissing(_, _, _, _)
\* the folder loop mutated: a missing folder ends the loop (break)
FindInFoldersStopAtMissing(filesys, order, folders, i) ==
  IF i > Len(folders) THEN <<>>
  ELSE IF ~FolderExists(filesys, folders[i]) THEN <<>>
  ELSE GlobExtensions(filesys, order, folders[i], 1)
       \o FindInFoldersStopAtMissing(filesys, order, folders, i + 1)

RECURSIVE FindInFolders(_, _, _, _)
\* for folder in self.source_folders: a missing folder is skipped
FindInFolders(filesys, order, folders, i) ==
  IF i > Len(folders) THEN <<>>
  ELSE (IF ~FolderExists(filesys, folders[i]) THEN <<>>
        ELSE GlobExtensions(filesys, order, folders[i], 1))
       \o FindInFolders(filesys, order, folders, i + 1)

find_all_images(filesys, order, folders) == FindInFolders(filesys, order, folders, 1)

\* ----------------------------------------------------- check_duplicates
\* the exact-duplicate branch mutated: the latest path becomes canonical
RecordSha256LastWins(smap, edups, sha256, path) ==
  IF DictHas(smap, sha256)
  THEN [sha256_map |-> DictSet(smap, sha256, path),
        exact_duplicates |-> DictAppend(edups, sha256, DictGet(smap, sha256))]
  ELSE [sha256_map |-> DictSet(smap, sha256, path), exact_duplicates |-> edups]

\* the exact-duplicate branch mutated: a new digest is also listed
RecordSha256AlwaysListed(smap, edups, sha256, path) ==
  IF DictHas(smap, sha256)
  THEN [sha256_map |-> smap, exact_duplicates |-> DictAppend(edups, sha256, path)]
  ELSE [sha256_map |-> DictSet(smap, sha256, path),
        exact_duplicates |-> DictAppend(edups, sha256, path)]

\* if sha256 in self.sha256_map: ... append ... else: ... record canonical
RecordSha256(smap, edups, sha256, path) ==
  IF DictHas(smap, sha256)
  THEN [sha256_map |-> smap, exact_duplicates |-> DictAppend(edups, sha256, path)]
  ELSE [sha256_map |-> DictSet(smap, sha256, path), exact_duplicates |-> edups]

\* the comparison mutated: strictly below the threshold
WithinThresholdStrict(distance, threshold) == distance < threshold

\* if distance <= self.phash_threshold
WithinThreshold(distance, threshold) == distance <= threshold

RECURSIVE LastSimilar(_, _, _, _)
\* the key scan mutated: no break, the last key within the threshold wins
LastSimilar(keys, phash, threshold, i) ==
  IF i > Len(keys) THEN 0
  ELSE LET later == LastSimilar(keys, phash, threshold, i + 1)
       IN IF later /= 0 THEN later
          ELSE IF WithinThreshold(Hamming(hex_to_hash(phash), hex_to_hash(keys[i])),
                                  threshold)
               THEN i ELSE 0

RECURSIVE FirstSimilar(_, _, _, _)
\* for existing_phash in self.phash_map.keys(): ... break.  The position of
\* the first key within the threshold, 0 when the loop ends without a break
FirstSimilar(keys, phash, threshold, i) ==
  IF i > Len(keys) THEN 0
  ELSE IF WithinThreshold(Hamming(hex_to_hash(phash), hex_to_hash(keys[i])), threshold)
       THEN i
       ELSE FirstSimilar(keys, phash, threshold, i + 1)

RECURSIVE AppendToSimilar(_, _, _, _, _, _)
\* the key loop without its break: the file joins every group within the
\* threshold
AppendToSimilar(keys, sdups, phash, threshold, path, i) ==
  IF i > Len(keys) THEN sdups
  ELSE AppendToSimilar(keys,
         IF WithinThreshold(Hamming(hex_to_hash(phash), hex_to_hash(keys[i])),
                            threshold)
         THEN DictAppend(sdups, keys[i], path) ELSE sdups,
         phash, threshold, path, i + 1)

\* the perceptual branch mutated: no break after the first similar key
RecordPhashNoBreak(pmap, sdups, phash, threshold, path) ==
  IF ~phash.ok
  THEN [phash_map |-> pmap, similar_duplicates |-> sdups]
  ELSE IF FirstSimilar(pmap.keys, phash.hex, threshold, 1) /= 0
       THEN [phash_map |-> pmap,
             similar_duplicates |->
               AppendToSimilar(pmap.keys, sdups, phash.hex, threshold, path, 1)]
       ELSE [phash_map |-> DictSet(pmap, phash.hex, path),
             similar_duplicates |-> sdups]

\* the perceptual branch mutated: phash_map[phash] = path is not guarded by
\* 'if not found_similar'
RecordPhashAlwaysKey(pmap, sdups, phash, threshold, path) ==
  IF ~phash.ok
  THEN [phash_map |-> pmap, similar_duplicates |-> sdups]
  ELSE LET m == FirstSimilar(pmap.keys, phash.hex, threshold, 1)
       IN [phash_map |-> DictSet(pmap, phash.hex, path),
           similar_duplicates |->
             IF m /= 0 THEN DictAppend(sdups, pmap.keys[m], path) ELSE sdups]

\* if phash: scan the keys; append to the first similar group, or add a key
RecordPhash(pmap, sdups, phash, threshold, path) ==
  IF ~phash.ok
  THEN [phash_map |-> pmap, similar_duplicates |-> sdups]
  ELSE LET m == FirstSimilar(pmap.keys, phash.hex, threshold, 1)
       IN IF m /= 0
          THEN [phash_map |-> pmap,
                similar_duplicates |-> DictAppend(sdups, pmap.keys[m], path)]
          ELSE [phash_map |-> DictSet(pmap, phash.hex, path),
                similar_duplicates |-> sdups]


\* ------------------------------------------- backup_and_remove_duplicates
\* the paths the mover visits, mutated: the similar images are moved too
FilesToMoveWithSimilar(edups, sdups) == Flatten(edups, 1) \o Flatten(sdups, 1)

\* for sha256, duplicate_files in self.exact_duplicates.items():
\*     for dup_file in duplicate_files:
FilesToMove(edups, sdups) == Flatten(edups, 1)

\* shutil.move mutated into a copy: the source stays where it is
ShutilCopy(filesys, source, dest) ==
  [p \in (DOMAIN filesys) \cup {dest} |->
     IF p = dest THEN filesys[source] ELSE filesys[p]]

\* shutil.move(source, dest): dest holds the content, source is gone
ShutilMove(filesys, source, dest) ==
  [p \in ((DOMAIN filesys) \ {source}) \cup {dest} |->
     IF p = dest THEN filesys[source] ELSE filesys[p]]

\* self.backup_dir / f"duplicates_{timestamp}"
BackupSubdir(timestamp) == backup_dir \o << <<"duplicates", timestamp>> >>

\* ------------------------------------------------------- generate_report
\* dict.get(key, "Unknown")
DictGetOr(d, k) == IF DictHas(d, k) THEN DictGet(d, k) ELSE <<"Unknown">>

\* total_images_scanned mutated: the duplicates are not counted
TotalImagesScannedCanonicalOnly(smap, edups) == Len(smap.keys)

\* len(self.sha256_map) + sum(len(v) for v in self.exact_duplicates.values())
TotalImagesScanned(smap, edups) == Len(smap.keys) + SumLens(edups, 1)

\* the report dictionary of generate_report (the timestamp is left out)
Report(smap, edups, pmap, sdups) ==
  [total_images_scanned |-> TotalImagesScanned(smap, edups),
   exact_duplicates_count |-> SumLens(edups, 1),
   similar_duplicates_count |-> SumLens(sdups, 1),
   exact_duplicates |->
     [k \in DOMAIN edups.val |->
        [original |-> DictGetOr(smap, k), duplicates |-> edups.val[k]]],
   similar_duplicates |->
     [k \in DOMAIN sdups.val |->
        [original |-> DictGetOr(pmap, k), similar_images |-> sdups.val[k]]]]

\* ------------------------------------------------------------------ Init
\* every layout holds three files
NumFiles == Cardinality({FileA, FileB, FileC2})

\* content classes are numbered in the order of their first file
Canonical(cont) ==
  \A i \in 1..NumFiles :
    \/ \E j \in 1..(i - 1) : cont[j] = cont[i]
    \/ cont[i] = Cardinality({cont[j] : j \in 1..(i - 1)}) + 1

\* the operating system lists the entries of one directory together
DirectoryWise(order) ==
  \A i, j, k \in 1..Len(order) :
    (i < j /\ j < k /\ Parent(order[i]) = Parent(order[k]))
      => Parent(order[j]) = Parent(order[i])

Orders(files) ==
  {o \in [1..Len(files) -> Range(files)] :
     /\ \A i, j \in 1..Len(files) : i /= j => o[i] /= o[j]
     /\ DirectoryWise(o)}

Init ==
  \E layout \in Layouts :
  \E cont \in [1..NumFiles -> 1..NumFiles] :
    /\ Canonical(cont)
    /\ source_folders = layout.source_folders
    /\ phash_threshold \in 0..MaxThreshold
    /\ fs0 = [p \in Range(layout.files) |->
                cont[CHOOSE i \in 1..NumFiles : layout.files[i] = p]]
    /\ fs = fs0
    /\ image_hash \in [1..NumFiles -> Bits \cup {<<>>}]
    /\ \A c \in 1..NumFiles :
         c \notin {cont[i] : i \in 1..NumFiles} => image_hash[c] = <<>>
    /\ enum_order \in Orders(layout.files)
    /\ pc = "start"
    /\ image_files = <<>>
    /\ idx = 1
    /\ hashed = 0
    /\ sha256_map = EmptyDict
    /\ exact_duplicates = EmptyDict
    /\ phash_map = EmptyDict
    /\ similar_duplicates = EmptyDict
    /\ calls = 0
    /\ backup_subdir = <<>>
    /\ queue = <<>>
    /\ moved_count = 0
    /\ moves = [p \in Range(layout.files) |-> 0]
    /\ now = 1
    /\ report = <<>>
    /\ raised = ""

\* --------------------------------------------------------------- actions
\* run(), step 1: image_files = self.find_all_images()
FindAllImages ==
  /\ pc = "start"
  /\ image_files' = find_all_images(fs, enum_order, source_folders)
  /\ idx' = 1
  /\ pc' = "scan"
  /\ UNCHANGED <<config, fs, hashed, index, mover, report, raised>>

\* check_duplicates, one iteration of the loop over image_files
CheckFile ==
  /\ pc = "scan"
  /\ idx <= Len(image_files)
  /\ LET file_path == image_files[idx]
         sha256 == calculate_sha256(fs, file_path)
         exact == RecordSha256(sha256_map, exact_duplicates, sha256, file_path)
         phash == calculate_phash(image_hash, fs, file_path)
         similar == RecordPhash(phash_map, similar_duplicates, phash,
                                phash_threshold, file_path)
     IN /\ sha256_map' = exact.sha256_map
        /\ exact_duplicates' = exact.exact_duplicates
        /\ phash_map' = similar.phash_map
        /\ similar_duplicates' = similar.similar_duplicates
  /\ hashed' = hashed + 1
  /\ idx' = idx + 1
  /\ UNCHANGED <<config, fs, pc, image_files, mover, report, raised>>

\* check_duplicates: open() or read() raises in calculate_sha256; nothing
\* catches the exception, which ends run()
CheckFileReadFailure ==
  /\ pc = "scan"
  /\ idx <= Len(image_files)
  /\ pc' = "crashed"
  /\ raised' = "IOError"
  /\ UNCHANGED <<config, fs, image_files, idx, hashed, index, mover, report>>

\* check_duplicates returns: the loop is over
CheckDuplicatesReturn ==
  /\ pc = "scan"
  /\ idx > Len(image_files)
  /\ pc' = "scanned"
  /\ UNCHANGED <<config, fs, image_files, idx, hashed, index, mover, report, raised>>

\* backup_and_remove_duplicates, lines 105-108: the timestamped directory
StartBackup ==
  /\ \E timestamp \in now..MaxClock :
       /\ now' = timestamp
       /\ backup_subdir' = BackupSubdir(timestamp)
  /\ calls' = calls + 1
  /\ queue' = FilesToMove(exact_duplicates, similar_duplicates)
  /\ moved_count' = 0
  /\ pc' = "backup"
  /\ UNCHANGED <<config, fs, image_files, idx, hashed, index, moves, report, raised>>

\* run(), step 4: if exact_count > 0: self.backup_and_remove_duplicates()
RunBackup ==
  /\ pc = "scanned"
  /\ SumLens(exact_duplicates, 1) > 0
  /\ StartBackup

\* run(), step 4 with exact_count = 0: the mover is not invoked
RunSkipBackup ==
  /\ pc = "scanned"
  /\ SumLens(exact_duplicates, 1) = 0
  /\ pc' = "backed"
  /\ UNCHANGED <<config, fs, image_files, idx, hashed, index, mover, report, raised>>

\* a caller invokes backup_and_remove_duplicates again on the same checker
BackupAgain ==
  /\ pc = "backed"
  /\ calls < MaxBackupCalls
  /\ StartBackup

\* backup_and_remove_duplicates, one iteration of the inner loop: the
\* duplicate is moved when it exists; relative_to raises ValueError for a
\* path that is not under the parent of the first source folder
BackupFile ==
  /\ pc = "backup"
  /\ queue /= <<>>
  /\ LET source == Head(queue)
         relative_path == RelativeTo(source, Parent(source_folders[1]))
         dest == backup_subdir \o relative_path.rel
     IN IF ~FileExists(fs, source)
        THEN /\ queue' = Tail(queue)
             /\ UNCHANGED <<fs, pc, moved_count, moves, raised>>
        ELSE IF ~relative_path.ok
        THEN /\ pc' = "crashed"
             /\ raised' = "ValueError"
             /\ UNCHANGED <<fs, queue, moved_count, moves>>
        ELSE /\ fs' = ShutilMove(fs, source, dest)
             /\ moved_count' = moved_count + 1
             /\ moves' = [moves EXCEPT ![source] = @ + 1]
             /\ queue' = Tail(queue)
             /\ UNCHANGED <<pc, raised>>
  /\ UNCHANGED <<config, image_files, idx, hashed, index, calls, backup_subdir,
                 now, report>>

\* backup_and_remove_duplicates: dest.parent.mkdir or shutil.move raises
\* (permission denied, ...) for an existing duplicate whose destination was
\* computed; nothing catches the exception, which ends run()
BackupFileMoveFailure ==
  /\ pc = "backup"
  /\ queue /= <<>>
  /\ FileExists(fs, Head(queue))
  /\ RelativeTo(Head(queue), Parent(source_folders[1])).ok
  /\ pc' = "crashed"
  /\ raised' = "OSError"
  /\ UNCHANGED <<config, fs, image_files, idx, hashed, index, mover, report>>

\* backup_and_remove_duplicates returns (moved_count, backup_subdir)
BackupReturn ==
  /\ pc = "backup"
  /\ queue = <<>>
  /\ pc' = "backed"
  /\ UNCHANGED <<config, fs, image_files, idx, hashed, index, mover, report, raised>>

\* run(), step 5: self.generate_report()
GenerateReport ==
  /\ pc = "backed"
  /\ report' = Report(sha256_map, exact_duplicates, phash_map, similar_duplicates)
  /\ pc' = "done"
  /\ UNCHANGED <<config, fs, image_files, idx, hashed, index, mover, raised>>

Next ==
  \/ FindAllImages
  \/ CheckFile
  \/ CheckFileReadFailure
  \/ CheckDuplicatesReturn
  \/ RunBackup
  \/ RunSkipBackup
  \/ BackupAgain
  \/ BackupFile
  \/ BackupFileMoveFailure
  \/ BackupReturn
  \/ GenerateReport

Spec == Init /\ [][Next]_vars


\* ------------------------------------------------------------ vocabulary
\* no path occurs twice in the list handed to check_duplicates
Distinct(seq) == \A i, j \in 1..Len(seq) : i /= j => seq[i] /= seq[j]

\* check_duplicates has gone through the whole list
ScanOver == pc /= "start" /\ idx > Len(image_files)

\* the paths listed in some 'duplicates' list, in some 'similar_images' list
ListedExact == Range(Flatten(exact_duplicates, 1))
ListedSimilar == Range(Flatten(similar_duplicates, 1))

\* the digest and the fingerprint bits of the file at a path when scanned
DigestOf(p) == <<"sha256", fs0[p]>>
BitsOf(p) == image_hash[fs0[p]]

\* the file is still where it was, with its content, and was never moved
InPlace(p) == p \in DOMAIN fs /\ fs[p] = fs0[p] /\ moves[p] = 0

\* the file is gone from its place and lies in a backup directory under its
\* path relative to the parent of the first source folder
Quarantined(p) ==
  /\ p \notin DOMAIN fs
  /\ \E t \in 1..MaxClock :
       LET dest == BackupSubdir(t) \o RelativeTo(p, Parent(source_folders[1])).rel
       IN dest \in DOMAIN fs /\ fs[dest] = fs0[p]

\* C1: after check_duplicates has processed a list of distinct readable
\* files, for every content class the first file of the class in scan order
\* is the canonical entry of its digest, and the other files of the class
\* are exactly the digest's duplicate list, in scan order (no list for a
\* class of one file), whatever the similarity grouping did with them.
C1_ExactGroups ==
  (ScanOver /\ Distinct(image_files)) =>
    \A q \in Range(image_files) :
      LET Same(p) == fs0[p] = fs0[q]
          same == SelectSeq(image_files, Same)
          d == DigestOf(q)
      IN /\ DictHas(sha256_map, d)
         /\ DictGet(sha256_map, d) = Head(same)
         /\ IF Len(same) > 1
            THEN DictHas(exact_duplicates, d)
                 /\ DictGet(exact_duplicates, d) = Tail(same)
            ELSE ~DictHas(exact_duplicates, d)

\* three byte-identical files scanned: one canonical, two duplicates, and
\* the duplicates were also put into a similarity group
C1_Witness ==
  /\ ScanOver
  /\ Distinct(image_files)
  /\ Len(image_files) = 3
  /\ \E d \in DOMAIN exact_duplicates.val : Len(exact_duplicates.val[d]) = 2
  /\ ListedSimilar /= {}

RECURSIVE SumDuplicates(_, _)
\* the sum of the lengths of the report's 'duplicates' lists over digests S
SumDuplicates(rep, S) ==
  IF S = {} THEN 0
  ELSE LET d == CHOOSE x \in S : TRUE
       IN Len(rep.exact_duplicates[d].duplicates) + SumDuplicates(rep, S \ {d})

\* C3: in the report, exact_duplicates_count is the sum of the lengths of
\* the exact-duplicate lists, total_images_scanned is the number of
\* canonical digest entries plus exact_duplicates_count, and
\* total_images_scanned is the number of files hashed during the scan.
C3_ReportCounts ==
  pc = "done" =>
    /\ report.exact_duplicates_count
         = SumDuplicates(report, DOMAIN report.exact_duplicates)
    /\ report.total_images_scanned
         = Cardinality(DOMAIN sha256_map.val) + report.exact_duplicates_count
    /\ report.total_images_scanned = hashed

\* a report over a scan with two exact duplicates of one file
C3_Witness ==
  /\ pc = "done"
  /\ report.exact_duplicates_count = 2
  /\ report.total_images_scanned = 3

\* a.jpg, b.jpg, c.jpg scanned in that order: a and b byte-identical, c of
\* other bytes with a fingerprint within the threshold of a's
C4_Scenario ==
  /\ image_files = <<FileA, FileB, FileC2>>
  /\ fs0[FileA] = fs0[FileB]
  /\ fs0[FileC2] /= fs0[FileA]
  /\ BitsOf(FileA) /= <<>>
  /\ BitsOf(FileC2) /= <<>>
  /\ Hamming(BitsOf(FileA), BitsOf(FileC2)) <= phash_threshold

\* C4: the full run on that scenario ends with the exact group {a: [b]},
\* the similarity group {a: [c]}, b relocated to the backup directory, c in
\* place, exact_duplicates_count = 1 and similar_duplicates_count = 1.
C4_ScenarioOutcome ==
  (C4_Scenario /\ pc = "done") =>
    /\ report.exact_duplicates
         = [d \in {DigestOf(FileA)} |->
              [original |-> FileA, duplicates |-> <<FileB>>]]
    /\ report.similar_duplicates
         = [k \in {HashToHex(BitsOf(FileA), HashBits)} |->
              [original |-> FileA, similar_images |-> <<FileC2>>]]
    /\ Quarantined(FileB)
    /\ InPlace(FileC2)
    /\ report.exact_duplicates_count = 1
    /\ report.similar_duplicates_count = 1

\* C5: when backup_and_remove_duplicates has returned, only listed
\* duplicates were relocated, every listed duplicate is gone from its place
\* and lies in the backup directory, and the canonical file of every digest
\* is still in its place, unmoved.
C5_OnlyDuplicatesMoved ==
  (pc \in {"backed", "done"}) =>
    /\ \A p \in DOMAIN fs0 : ~InPlace(p) => p \in ListedExact
    /\ calls > 0 => \A p \in ListedExact : Quarantined(p)
    /\ \A p \in DictValues(sha256_map) : InPlace(p)

\* C6: a file listed in some 'similar_images' list and in no 'duplicates'
\* list is never relocated: it stays in its place with its content.
C6_SimilarOnlyStays ==
  \A p \in ListedSimilar \ ListedExact : InPlace(p)

\* the run is over, an exact duplicate was moved, a similar-only file stays
C6_Witness ==
  /\ pc = "done"
  /\ ListedSimilar \ ListedExact /= {}
  /\ \E p \in ListedExact : Quarantined(p)

\* C7: an invocation of backup_and_remove_duplicates after the first one,
\* and an invocation with no duplicate paths, changes no file (no source
\* location, no file in a backup directory); no path is relocated twice.
C7_SecondBackupMovesNothing ==
  /\ [][(pc = "backup" /\ (calls >= 2 \/ SumLens(exact_duplicates, 1) = 0))
          => fs' = fs]_vars
  /\ [](\A p \in DOMAIN moves : moves[p] <= 1)

\* the second invocation has returned after the first one moved a file
C7_Witness ==
  /\ pc = "backed"
  /\ calls = 2
  /\ \E p \in DOMAIN moves : moves[p] = 1 /\ Quarantined(p)


\* the fingerprint string of the file at a path (the file has one)
HexOf(p) == HashToHex(BitsOf(p), HashBits)

\* the positions of the keys of phash_map within the threshold of a file
CloseKeys(p) ==
  {i \in 1..Len(phash_map.keys) :
     Hamming(BitsOf(p), hex_to_hash(phash_map.keys[i])) <= phash_threshold}

Min(S) == CHOOSE x \in S : \A y \in S : x <= y

\* C8: a step of check_duplicates on a file with a fingerprint appends the
\* file to the group of the first key, in creation order, at Hamming
\* distance <= phash_threshold and changes nothing else of the groups, the
\* keys included; with no such key it adds the fingerprint as the last key,
\* with the file as its canonical path, and leaves the old keys, their
\* order, their canonical paths and all member lists as they were.
C8_FirstMatchWins ==
  [][(pc = "scan" /\ idx' = idx + 1 /\ BitsOf(image_files[idx]) /= <<>>) =>
       LET f == image_files[idx]
           close == CloseKeys(f)
       IN IF close /= {}
          THEN LET k == phash_map.keys[Min(close)]
               IN /\ phash_map' = phash_map
                  /\ DOMAIN similar_duplicates'.val
                       = (DOMAIN similar_duplicates.val) \cup {k}
                  /\ similar_duplicates'.val[k]
                       = Append(IF k \in DOMAIN similar_duplicates.val
                                THEN similar_duplicates.val[k] ELSE <<>>, f)
                  /\ \A x \in DOMAIN similar_duplicates.val :
                       x /= k => similar_duplicates'.val[x] = similar_duplicates.val[x]
          ELSE /\ HexOf(f) \notin DOMAIN phash_map.val
               /\ phash_map'.keys = Append(phash_map.keys, HexOf(f))
               /\ phash_map'.val[HexOf(f)] = f
               /\ \A x \in DOMAIN phash_map.val : phash_map'.val[x] = phash_map.val[x]
               /\ similar_duplicates' = similar_duplicates]_vars

\* the third file scanned is within the threshold of both of two keys and
\* is a member of the group of the first
C8_Witness ==
  /\ idx > 3
  /\ Len(phash_map.keys) = 2
  /\ BitsOf(image_files[3]) /= <<>>
  /\ CloseKeys(image_files[3]) = {1, 2}
  /\ phash_map.keys[1] \in DOMAIN similar_duplicates.val
  /\ image_files[3] \in Range(similar_duplicates.val[phash_map.keys[1]])
  /\ phash_map.keys[2] \notin DOMAIN similar_duplicates.val

\* the members of the group keyed k
Members(k) ==
  IF k \in DOMAIN similar_duplicates.val
  THEN Range(similar_duplicates.val[k]) ELSE {}

\* the keys of the groups a path belongs to, as canonical or as member
GroupsOf(p) ==
  {k \in DOMAIN phash_map.val : phash_map.val[k] = p \/ p \in Members(k)}

\* [A, B, C] scanned first, dist(A,B) <= T, dist(A,C) <= T, dist(B,C) > T
C9_Scenario ==
  /\ Len(image_files) >= 3
  /\ idx > 3
  /\ \A i \in 1..3 : BitsOf(image_files[i]) /= <<>>
  /\ Hamming(BitsOf(image_files[1]), BitsOf(image_files[2])) <= phash_threshold
  /\ Hamming(BitsOf(image_files[1]), BitsOf(image_files[3])) <= phash_threshold
  /\ Hamming(BitsOf(image_files[2]), BitsOf(image_files[3])) > phash_threshold

\* B and C are members of the group keyed by A, whose canonical path is A
C9_ScenarioOutcome ==
  LET a == HexOf(image_files[1])
  IN /\ DictHas(phash_map, a)
     /\ DictGet(phash_map, a) = image_files[1]
     /\ image_files[2] \in Members(a)
     /\ image_files[3] \in Members(a)

\* C9 as stated: of any two scanned files with fingerprints at distance
\* <= threshold the later one is a member of a group the earlier one
\* belongs to; and the scenario [A, B, C] ends with B and C in A's group.
C9_LaterJoinsEarlier ==
  /\ \A i, j \in 1..(idx - 1) :
       (/\ i < j
        /\ BitsOf(image_files[i]) /= <<>>
        /\ BitsOf(image_files[j]) /= <<>>
        /\ Hamming(BitsOf(image_files[i]), BitsOf(image_files[j])) <= phash_threshold)
       => \E k \in GroupsOf(image_files[i]) : image_files[j] \in Members(k)
  /\ C9_Scenario => C9_ScenarioOutcome

\* C9 amended: a scanned file whose fingerprint is at distance <= threshold
\* of the key of a group created by an earlier file is a member of the
\* first group, in creation order, whose key is that close; and the
\* scenario [A, B, C] ends with B and C in A's group.
C9_LaterJoinsFirstCloseGroup ==
  /\ \A i, j \in 1..(idx - 1) :
       (/\ i < j
        /\ BitsOf(image_files[i]) /= <<>>
        /\ BitsOf(image_files[j]) /= <<>>
        /\ DictHas(phash_map, HexOf(image_files[i]))
        /\ DictGet(phash_map, HexOf(image_files[i])) = image_files[i]
        /\ Hamming(BitsOf(image_files[i]), BitsOf(image_files[j])) <= phash_threshold)
       => image_files[j] \in Members(phash_map.keys[Min(CloseKeys(image_files[j]))])
  /\ C9_Scenario => C9_ScenarioOutcome

\* the scenario [A, B, C] was scanned, with three distinct files
C9_Witness ==
  /\ C9_Scenario
  /\ Distinct(image_files)
  /\ C9_ScenarioOutcome

\* C10: a scanned file whose perceptual hash failed is counted in
\* total_images_scanned, is the canonical entry of its digest when no
\* earlier file had its content and a listed duplicate otherwise, and is in
\* no similarity group, neither as canonical path nor as member; the scan
\* went on after it.
C10_UndecodableStillExact ==
  \A j \in 1..(idx - 1) :
    LET f == image_files[j]
    IN BitsOf(f) = <<>> =>
       /\ TotalImagesScanned(sha256_map, exact_duplicates) = idx - 1
       /\ pc = "done" => report.total_images_scanned = Len(image_files)
       /\ DictHas(sha256_map, DigestOf(f))
       /\ IF \E i \in 1..(j - 1) : fs0[image_files[i]] = fs0[f]
          THEN /\ DictHas(exact_duplicates, DigestOf(f))
               /\ f \in Range(DictGet(exact_duplicates, DigestOf(f)))
          ELSE DictGet(sha256_map, DigestOf(f)) = f
       /\ f \notin DictValues(phash_map)
       /\ f \notin ListedSimilar

\* the run ended; an undecodable file with content of its own was scanned
\* and is canonical, another undecodable file is its exact duplicate, and a
\* decodable file heads a similarity group
C10_Witness ==
  /\ pc = "done"
  /\ Distinct(image_files)
  /\ phash_map.keys /= <<>>
  /\ \E f, g \in Range(image_files) :
       /\ f /= g
       /\ BitsOf(f) = <<>>
       /\ DictGet(sha256_map, DigestOf(f)) = f
       /\ g \in ListedExact
       /\ fs0[g] = fs0[f]


\* C11: when a file cannot be read for hashing (the iteration ends without a
\* digest), the file enters no map and no group and the scan goes on with
\* the next file.
C11_ReadFailureSkipsFile ==
  [][(pc = "scan" /\ idx <= Len(image_files) /\ hashed' = hashed) =>
       /\ pc' = "scan"
       /\ idx' = idx + 1
       /\ UNCHANGED index]_vars

\* C12: an iteration of the mover on a duplicate that cannot be relocated
\* (missing, permission denied, destination not computable) leaves every
\* file where it is and goes on with the remaining duplicates.
C12_MoveFailureSkipsFile ==
  [][(pc = "backup" /\ queue /= <<>> /\ moved_count' = moved_count) =>
       /\ pc' = "backup"
       /\ queue' = Tail(queue)
       /\ fs' = fs]_vars


\* the candidate files of a folder: the files below it with a configured
\* extension
Candidates(folder) ==
  {p \in DOMAIN fs0 :
     IsPrefix(folder, p) /\ p /= folder /\ Suffix(Name(p)) \in Range(extensions)}

\* C13: the list find_all_images returns holds every candidate file of
\* every configured root that exists, and nothing else, whether or not
\* other configured roots are missing; discovery raises nothing.
C13_MissingRootSkipped ==
  pc /= "start" =>
    /\ Range(image_files)
         = UNION {Candidates(source_folders[i]) : i \in 1..Len(source_folders)}
    /\ pc = "scan" /\ idx = 1 => raised = ""

\* a configured root is missing and the file of the root configured after
\* it was discovered
C13_Witness ==
  /\ pc = "scan"
  /\ \E i \in 1..Len(source_folders) :
       /\ ~FolderExists(fs0, source_folders[i])
       /\ \E j \in (i + 1)..Len(source_folders) :
            /\ Candidates(source_folders[j]) /= {}
            /\ Candidates(source_folders[j]) \subseteq Range(image_files)

\* name.startswith('._'): a macOS resource-fork file
ResourceFork(name) == name \in {"._a.jpg"}

\* C14: no file whose name begins with '._' is returned by discovery, so
\* none is hashed, canonical, listed or relocated.
C14_NoResourceForkFiles ==
  \A p \in Range(image_files) : ~ResourceFork(Name(p))

RECURSIVE ScanFrom(_, _, _)
\* the maps check_duplicates leaves after the files from position i on
ScanFrom(files, i, st) ==
  IF i > Len(files) THEN st
  ELSE LET exact == RecordSha256(st.sha256_map, st.exact_duplicates,
                                 calculate_sha256(fs0, files[i]), files[i])
           similar == RecordPhash(st.phash_map, st.similar_duplicates,
                                  calculate_phash(image_hash, fs0, files[i]),
                                  phash_threshold, files[i])
       IN ScanFrom(files, i + 1,
                   [sha256_map |-> exact.sha256_map,
                    exact_duplicates |-> exact.exact_duplicates,
                    phash_map |-> similar.phash_map,
                    similar_duplicates |-> similar.similar_duplicates])

\* what a scan of a list of files yields: the canonical entries, the
\* duplicate lists, the similarity groups and the set of files to relocate
ScanOutcome(files) ==
  LET st == ScanFrom(files, 1,
                     [sha256_map |-> EmptyDict, exact_duplicates |-> EmptyDict,
                      phash_map |-> EmptyDict, similar_duplicates |-> EmptyDict])
  IN [canonical |-> st.sha256_map.val,
      duplicates |-> st.exact_duplicates.val,
      keys |-> st.phash_map.val,
      similar |-> st.similar_duplicates.val,
      relocated |-> Range(Flatten(st.exact_duplicates, 1))]

\* C15: the outcome of the run does not depend on the order in which the
\* file system enumerates the files: under every other enumeration order
\* the scan of the discovered list yields the same canonical entries,
\* duplicate lists and similarity groups and relocates the same files.
C15_OrderIndependent ==
  pc /= "start" =>
    \A o \in Orders(enum_order) :
      ScanOutcome(find_all_images(fs0, o, source_folders))
        = ScanOutcome(image_files)

\* C16: an iteration of check_duplicates on a file whose digest is already
\* in sha256_map appends the file to the digest's duplicate list and leaves
\* the similarity groups and their keys as they were.
C16_ExactDuplicateNotCompared ==
  [][(/\ pc = "scan"
      /\ idx' = idx + 1
      /\ DictHas(sha256_map, DigestOf(image_files[idx])))
     => /\ exact_duplicates'
             = DictAppend(exact_duplicates, DigestOf(image_files[idx]),
                          image_files[idx])
        /\ phash_map' = phash_map
        /\ similar_duplicates' = similar_duplicates]_vars


\* a sequence is the beginning of another
IsInitialSegment(s, t) == Len(s) <= Len(t) /\ SubSeq(t, 1, Len(s)) = s

\* C17: when the scanned paths are pairwise distinct, every path occurs at
\* most once in all the similarity member lists together, no member of a
\* group is the canonical path of a key, and a step never takes a member
\* out of its list or moves it: each list only grows at its end.
C17_OneGroupPerFile ==
  /\ [](Distinct(image_files) =>
          /\ Distinct(Flatten(similar_duplicates, 1))
          /\ ListedSimilar \cap DictValues(phash_map) = {})
  /\ [][\A k \in DOMAIN similar_duplicates.val :
          /\ k \in DOMAIN similar_duplicates'.val
          /\ IsInitialSegment(similar_duplicates.val[k],
                              similar_duplicates'.val[k])]_vars

\* the scan of distinct paths is over and a member of a group was within
\* the threshold of two keys
C17_Witness ==
  /\ ScanOver
  /\ Distinct(image_files)
  /\ \E p \in ListedSimilar :
       /\ BitsOf(p) /= <<>>
       /\ Cardinality(CloseKeys(p)) >= 2

RECURSIVE CommonPrefix(_, _)
\* the longest path that begins both paths
CommonPrefix(p, q) ==
  IF p = <<>> \/ q = <<>> \/ Head(p) /= Head(q) THEN <<>>
  ELSE <<Head(p)>> \o CommonPrefix(Tail(p), Tail(q))

RECURSIVE CommonAncestor(_, _)
\* the deepest directory that holds every source root from position i on
CommonAncestor(folders, i) ==
  IF i = Len(folders) THEN Parent(folders[i])
  ELSE CommonPrefix(Parent(folders[i]), CommonAncestor(folders, i + 1))

\* C18: a step of the mover on a duplicate that exists, unless the move
\* itself fails, puts the file in the backup directory under its path
\* relative to the common ancestor of all source roots, also when a root
\* does not lie under the parent of the first root.
C18_RelativeToCommonAncestor ==
  [][(/\ pc = "backup"
      /\ queue /= <<>>
      /\ FileExists(fs, Head(queue))
      /\ raised' /= "OSError")
     => fs' = ShutilMove(fs, Head(queue),
                backup_subdir
                  \o RelativeTo(Head(queue),
                                CommonAncestor(source_folders, 1)).rel)]_vars

\* C19: the list discovery returns holds no path twice, also when the
\* source roots are nested, overlap or repeat.
C19_DiscoveryIsSet ==
  Distinct(image_files)

\* C20: with a threshold >= 0 any two distinct keys of phash_map lie at a
\* Hamming distance above the threshold, and a step never changes or
\* removes the canonical path recorded under a key.
C20_KeysApartAndStable ==
  /\ [](phash_threshold >= 0 =>
          \A i, j \in 1..Len(phash_map.keys) :
            i /= j => Hamming(hex_to_hash(phash_map.keys[i]),
                              hex_to_hash(phash_map.keys[j])) > phash_threshold)
  /\ [][phash_threshold >= 0 =>
          \A k \in DOMAIN phash_map.val :
            /\ k \in DOMAIN phash_map'.val
            /\ phash_map'.val[k] = phash_map.val[k]]_vars

\* two keys exist and a later file with the fingerprint of a key was
\* scanned and left the key's canonical path alone
C20_Witness ==
  /\ ScanOver
  /\ Len(phash_map.keys) >= 2
  /\ \E p \in ListedSimilar :
       /\ BitsOf(p) /= <<>>
       /\ HexOf(p) \in DOMAIN phash_map.val
       /\ phash_map.val[HexOf(p)] /= p


\* ------------------------------------------------------- a second run
\* Configurations for running the checker twice: the backup directory
\* outside the source roots (two sibling roots), and inside a source root
\* (the root is the working directory ".", which holds "backup").
RerunLayouts ==
  { [source_folders |-> << <<"data", "r1">>, <<"data", "r2">> >>,
     files |-> <<FileA, FileB, FileC2>>],
    [source_folders |-> << <<>> >>,
     files |-> <<FileA, FileB, FileC2>>] }

\* the elements of a finite set in some order
SeqOf(S) == CHOOSE s \in [1..Cardinality(S) -> S] : Range(s) = S

\* the checker was constructed over a tree that holds quarantined files:
\* it is the second checker
SecondRun == \E p \in DOMAIN fs0 : IsPrefix(backup_dir, p)

InitRerun ==
  \E layout \in RerunLayouts :
  \E cont \in [1..NumFiles -> 1..NumFiles] :
    /\ Canonical(cont)
    /\ source_folders = layout.source_folders
    /\ phash_threshold \in 0..MaxThreshold
    /\ fs0 = [p \in Range(layout.files) |->
                cont[CHOOSE i \in 1..NumFiles : layout.files[i] = p]]
    /\ fs = fs0
    /\ image_hash \in [1..NumFiles -> Bits \cup {<<>>}]
    /\ \A c \in 1..NumFiles :
         c \notin {cont[i] : i \in 1..NumFiles} => image_hash[c] = <<>>
    /\ enum_order \in Orders(layout.files)
    /\ pc = "start"
    /\ image_files = <<>>
    /\ idx = 1
    /\ hashed = 0
    /\ sha256_map = EmptyDict
    /\ exact_duplicates = EmptyDict
    /\ phash_map = EmptyDict
    /\ similar_duplicates = EmptyDict
    /\ calls = 0
    /\ backup_subdir = <<>>
    /\ queue = <<>>
    /\ moved_count = 0
    /\ moves = [p \in Range(layout.files) |-> 0]
    /\ now = 1
    /\ report = <<>>
    /\ raised = ""

\* run() has returned after relocating every exact duplicate it listed; a
\* fresh DuplicateChecker is constructed with the same configuration over
\* the tree as the first run left it (__init__, lines 19-37), the clock
\* having gone on or not
RunAgain ==
  /\ pc = "done"
  /\ ~SecondRun
  /\ calls = 1
  /\ ListedExact /= {}
  /\ \A p \in ListedExact : ~FileExists(fs, p)
  /\ fs0' = fs
  /\ enum_order' \in Orders(SeqOf(DOMAIN fs))
  /\ pc' = "start"
  /\ image_files' = <<>>
  /\ idx' = 1
  /\ hashed' = 0
  /\ sha256_map' = EmptyDict
  /\ exact_duplicates' = EmptyDict
  /\ phash_map' = EmptyDict
  /\ similar_duplicates' = EmptyDict
  /\ calls' = 0
  /\ backup_subdir' = <<>>
  /\ queue' = <<>>
  /\ moved_count' = 0
  /\ moves' = [p \in DOMAIN fs |-> 0]
  /\ now' \in now..MaxClock
  /\ report' = <<>>
  /\ UNCHANGED <<source_folders, phash_threshold, fs, image_hash, raised>>

NextRerun ==
  \/ Next
  \/ RunAgain

SpecRerun == InitRerun /\ [][NextRerun]_vars

\* C21: the second checker, constructed after a run that relocated every
\* exact duplicate, lists no exact duplicate and leaves the tree as it
\* found it (no file relocated, every canonical file in place), wherever
\* the backup directory lies.
C21_SecondRunFindsNothing ==
  SecondRun =>
    /\ exact_duplicates = EmptyDict
    /\ fs = fs0

====
